---- MODULE Spec2Model ----
(***************************************************************************)
(* gdriscv remote agent (agent_server.py) and its desktop client           *)
(* (gdriscv_gui.py).                                                       *)
(*                                                                         *)
(* The agent is an HTTP server with one handler per request.  Its state is *)
(* the host filesystem below and beside the configured base directory and  *)
(* the command processes it starts.  A path is the sequence of its         *)
(* components from "/", so <<>> is "/" and <<"r","a">> is "/r/a".          *)
(***************************************************************************)
EXTENDS Naturals, Sequences, FiniteSets, TLC

VARIABLES
    base_dir,   \* httpd.base_dir, fixed at startup (agent_server.py:329)
    fs,         \* host filesystem: path -> node, for the paths that exist
    nproc,      \* number of command processes started by /exec
    last,       \* the file or exec call answered last: operation, status, error, path used
    nreq,       \* number of file and exec calls answered
    panes,      \* live multiplexer panes per session name
    inflight,   \* client calls sent and not yet answered
    hist,       \* the answered session and job calls, in the order they were answered
    procs,      \* the command processes /exec started, in order: state and outcome
    alive,      \* the agent process is running and serving (serve_forever)
    jobs,       \* job records held by the agent, by job id
    gui         \* the desktop client: its attributes and where its threads are

vars == <<base_dir, fs, nproc, last, nreq, panes, inflight, hist, procs, alive, jobs, gui>>

(***************************************************************************)
(* Bounds                                                                  *)
(***************************************************************************)
MaxRawLen == 2      \* components of a caller-supplied path
MaxReq == 2         \* calls answered in one run
MaxLinkHops == 3    \* symbolic links followed while resolving one path
MaxInflight == 2    \* concurrent session calls
MaxHist == 3        \* session calls answered in one run
MaxOut == 1         \* bytes a command writes to one stream
MaxPieces == 4      \* pieces a request body is put together from
MaxLines == 82      \* lines a polled job writes to stdout

Names == {"a", "o"}
RawSegs == Names \cup {".."}
Contents == {<<>>, <<104, 105>>}
SessionNames == {"gdr_claude", "gdr_shell"}
JobIds == {"j1", "j2"}
\* an ASCII byte and a byte that is no UTF-8
Bytes == {104, 255}

(***************************************************************************)
(* Filesystem                                                              *)
(***************************************************************************)
Dir == [k |-> "dir", c |-> <<>>, to |-> <<>>]
File(c) == [k |-> "file", c |-> c, to |-> <<>>]
Link(t) == [k |-> "link", c |-> <<>>, to |-> t]
Absent == [k |-> "absent", c |-> <<>>, to |-> <<>>]

Node(f, p) ==
    IF p = <<>> THEN Dir ELSE IF p \in DOMAIN f THEN f[p] ELSE Absent

Parent(p) ==
    IF p = <<>> THEN <<>> ELSE SubSeq(p, 1, Len(p) - 1)

IsPrefix(b, p) ==
    /\ Len(b) <= Len(p)
    /\ SubSeq(p, 1, Len(b)) = b

\* os.path.realpath(strict=False) as Path.resolve() uses it: components are
\* taken left to right, ".." pops the resolved prefix, a symbolic link is
\* replaced by its (absolute) target, a missing component is kept as it is.
\* A chain of more than MaxLinkHops links is a loop: resolve() raises.
RECURSIVE Walk(_, _, _, _)
Walk(f, cur, rest, hops) ==
    IF rest = <<>> THEN [ok |-> TRUE, p |-> cur]
    ELSE LET s == Head(rest)
             t == Tail(rest)
             nxt == Append(cur, s)
         IN  IF s = "." THEN Walk(f, cur, t, hops)
             ELSE IF s = ".." THEN Walk(f, Parent(cur), t, hops)
             ELSE IF Node(f, nxt).k = "link"
                  THEN IF hops = 0 THEN [ok |-> FALSE, p |-> <<>>]
                       ELSE Walk(f, <<>>, Node(f, nxt).to \o t, hops - 1)
                  ELSE Walk(f, nxt, t, hops)

resolve(f, p) == Walk(f, <<>>, p, MaxLinkHops)

\* raw_path.lstrip("/"): a raw path is its number of leading slashes and its
\* components.
lstrip(raw) == [lead |-> 0, segs |-> raw.segs]

\* base / rel of pathlib: an absolute right operand replaces the left one.
JoinPath(base, rel) ==
    IF rel.lead > 0 THEN rel.segs ELSE base \o rel.segs

_is_within(f, child, base) ==
    LET c == resolve(f, child)
        b == resolve(f, base)
    IN  c.ok /\ b.ok /\ IsPrefix(b.p, c.p)

\* The abspath version of the check: the target is normalised without
\* following links.
_resolve_path_lexical(f, bd, raw) ==
    LET target == Walk([x \in {} |-> Absent], <<>>, JoinPath(bd, lstrip(raw)), 0)
    IN  IF IsPrefix(bd, target.p)
        THEN [ok |-> TRUE, p |-> target.p, err |-> ""]
        ELSE [ok |-> FALSE, p |-> <<>>, err |-> "path escapes base dir"]

_resolve_path(f, bd, raw) ==
    LET base == resolve(f, bd)
        target == IF base.ok THEN resolve(f, JoinPath(base.p, lstrip(raw)))
                  ELSE base
    IN  IF ~base.ok \/ ~target.ok
        THEN [ok |-> FALSE, p |-> <<>>, err |-> "Symlink loop"]
        ELSE IF ~_is_within(f, target.p, base.p)
        THEN [ok |-> FALSE, p |-> <<>>, err |-> "path escapes base dir"]
        ELSE [ok |-> TRUE, p |-> target.p, err |-> ""]

(***************************************************************************)
(* Storage operations of pathlib on a resolved target                      *)
(***************************************************************************)
Ancestors(p) == {SubSeq(p, 1, i) : i \in 1..Len(p)}

\* target.parent.mkdir(parents=True, exist_ok=True)
mkdir_parents(f, d) ==
    IF \A q \in Ancestors(d) : Node(f, q).k \in {"dir", "absent"}
    THEN [ok |-> TRUE,
          fs |-> [q \in DOMAIN f \cup Ancestors(d) |->
                    IF q \in DOMAIN f THEN f[q] ELSE Dir]]
    ELSE [ok |-> FALSE, fs |-> f]

\* target.write_bytes(data): open(target, "wb") creates or truncates the file
write_bytes(f, p, data) ==
    IF Node(f, p).k = "dir" \/ Node(f, Parent(p)).k # "dir"
    THEN [ok |-> FALSE, fs |-> f]
    ELSE [ok |-> TRUE,
          fs |-> [q \in DOMAIN f \cup {p} |-> IF q = p THEN File(data) ELSE f[q]]]

Children(f, d) == {q \in DOMAIN f : Len(q) = Len(d) + 1 /\ IsPrefix(d, q)}

\* p.stat() follows links; it raises when the link's target is missing
stat_ok(f, p) ==
    LET r == resolve(f, p) IN r.ok /\ Node(f, r.p).k # "absent"

\* the node p.stat() and p.is_dir() look at: the one a link leads to
Followed(f, p) ==
    LET r == resolve(f, p) IN IF r.ok THEN Node(f, r.p) ELSE Absent

\* Names as str compares them
NameOrder == <<"a", "o">>

\* sorted(target.iterdir(), key=lambda x: (not x.is_dir(), x.name)) and the
\* entry made of each: directories first, each group by name.  st_size of a
\* directory is the host's affair and is 0 here.
ls_entries(f, d) ==
    LET n == Len(NameOrder)
        keys == [i \in 1..(2 * n) |->
                    [is_dir |-> i <= n,
                     name |-> NameOrder[IF i <= n THEN i ELSE i - n]]]
        here == SelectSeq(keys, LAMBDA k :
                    /\ Append(d, k.name) \in DOMAIN f
                    /\ (Followed(f, Append(d, k.name)).k = "dir") = k.is_dir)
    IN  [i \in 1..Len(here) |->
            [name |-> here[i].name, is_dir |-> here[i].is_dir,
             size |-> Len(Followed(f, Append(d, here[i].name)).c)]]

(***************************************************************************)
(* Request values                                                          *)
(***************************************************************************)
RECURSIVE SeqsUpTo(_, _)
SeqsUpTo(S, n) ==
    IF n = 0 THEN {<<>>}
    ELSE LET shorter == SeqsUpTo(S, n - 1)
         IN  shorter \cup {Append(q, x) : q \in shorter, x \in S}

RawPaths == {[lead |-> l, segs |-> q] : l \in 0..1, q \in SeqsUpTo(RawSegs, MaxRawLen)}

\* "" : what `not raw` tests
EmptyRaw == [lead |-> 0, segs |-> <<>>]
DotRaw == [lead |-> 0, segs |-> <<".">>]

\* A content_b64 value by the way base64.b64decode(validate=False) treats it:
\* "absent" is a missing key or a non-string, "b64" the encoding of dec (the
\* empty string when dec is empty), "badpad" a string whose padding is wrong
\* (binascii.Error), "junk" a non-empty string with no alphabet character.
B64Values ==
    {[t |-> x, dec |-> <<>>] : x \in {"absent", "badpad", "junk"}}
        \cup {[t |-> "b64", dec |-> c] : c \in Contents}

None == [some |-> FALSE, data |-> <<>>]
Some(d) == [some |-> TRUE, data |-> d]

_b64_decode_maybe(v) ==
    IF v.t = "absent" \/ (v.t = "b64" /\ v.dec = <<>>) THEN None
    ELSE IF v.t = "badpad" THEN None
    ELSE IF v.t = "junk" THEN Some(<<>>)
    ELSE Some(v.dec)

\* Content-Length as int() sees it
ContentLengths == {"ok", "malformed"}

Resp(status, err) == [status |-> status, err |-> err]
NoResp == Resp(0, "handler raised")
\* what an answer says about a command: exit_code, stdout, stderr (text), and
\* beside it the state subprocess.run left the process in and the seconds it took
NoExec == [code |-> 0, stdout |-> <<>>, stderr |-> <<>>, proc |-> "none", elapsed |-> 0]
Out(resp, f, target, acted, spawned, data) ==
    [resp |-> resp, fs |-> f, target |-> target, acted |-> acted,
     spawned |-> spawned, data |-> data, ex |-> NoExec, entries |-> <<>>]
\* an answer given without touching storage at a resolved target
Plain(resp, f) == Out(resp, f, <<>>, FALSE, 0, <<>>)
\* an answer given after the handler used the resolved target
At(resp, f, target) == Out(resp, f, target, TRUE, 0, <<>>)

(***************************************************************************)
(* Handlers of agent_server.py, one operator per HTTP method: the answer,  *)
(* the filesystem the handler leaves, the resolved target it used and the  *)
(* number of processes it started.                                         *)
(***************************************************************************)
do_GET(f, bd, path, raw) ==
    IF path = "/ls" THEN
        LET r == _resolve_path(f, bd, IF raw = EmptyRaw THEN DotRaw ELSE raw)
        IN  IF ~r.ok THEN Plain(Resp(400, r.err), f)
            ELSE IF Node(f, r.p).k = "absent" THEN At(Resp(404, "not_found"), f, r.p)
            ELSE IF Node(f, r.p).k # "dir"
                 THEN At(Resp(400, "not_a_directory"), f, r.p)
            ELSE IF \E q \in Children(f, r.p) : ~stat_ok(f, q)
                 THEN At(Resp(400, "stat failed"), f, r.p)
            ELSE [At(Resp(200, ""), f, r.p) EXCEPT !.entries = ls_entries(f, r.p)]
    ELSE IF path \in {"/read", "/download"} THEN
        LET r == _resolve_path(f, bd, raw)
        IN  IF ~r.ok THEN Plain(Resp(400, r.err), f)
            ELSE IF Node(f, r.p).k # "file" THEN At(Resp(404, "not_found"), f, r.p)
            ELSE Out(Resp(200, ""), f, r.p, TRUE, 0, Node(f, r.p).c)
    ELSE Plain(Resp(404, "not_found"), f)

do_PUT(f, bd, path, raw, clen, data) ==
    IF path # "/upload" THEN Plain(Resp(404, "not_found"), f)
    ELSE IF raw = EmptyRaw THEN Plain(Resp(400, "missing path"), f)
    ELSE
        LET r == _resolve_path(f, bd, raw)
            mk == mkdir_parents(f, Parent(r.p))
            w == write_bytes(mk.fs, r.p, data)
        IN  IF ~r.ok THEN Plain(Resp(400, r.err), f)
            ELSE IF ~mk.ok THEN At(Resp(400, "mkdir failed"), f, r.p)
            ELSE IF clen = "malformed"
                 THEN At(Resp(400, "invalid literal for int()"), mk.fs, r.p)
            ELSE IF ~w.ok THEN At(Resp(400, "write failed"), mk.fs, r.p)
            ELSE At(Resp(200, ""), w.fs, r.p)

\* A catch-all that acknowledges the operations it does not know.
no_route_ok(f) == Plain(Resp(200, ""), f)

\* The last line of do_POST: the path matched none of the routes.
no_route(f) == Plain(Resp(404, "not_found"), f)

\* What a command and the host do once /exec asks for a process: whether the
\* host can start one, the seconds the command needs, its exit status and the
\* bytes it writes to stdout and stderr while it runs under this call.
Outputs == SeqsUpTo(Bytes, MaxOut)
Durations == {1, 90, 200}
NoLaunch == [launch |-> FALSE, dur |-> 0, code |-> 0, out |-> <<>>, err |-> <<>>]
Runs ==
    {NoLaunch} \cup
    {[launch |-> TRUE, dur |-> d, code |-> c, out |-> o, err |-> e] :
        d \in Durations, c \in {0, 3}, o \in Outputs, e \in Outputs}

\* a command that ends at once and one that outlasts every timeout, silent both
Quick == [launch |-> TRUE, dur |-> 1, code |-> 0, out |-> <<>>, err |-> <<>>]
Slow == [launch |-> TRUE, dur |-> 200, code |-> 0, out |-> <<>>, err |-> <<>>]

\* U+FFFD, what errors="replace" puts for an undecodable byte
Replacement == 65533

\* bytes.decode("utf-8", errors="ignore")
decode_ignore(b) == SelectSeq(b, LAMBDA x : x < 128)

\* bytes.decode("utf-8", errors="replace"), for ASCII bytes and bytes that
\* begin no UTF-8 sequence
decode(b) == [i \in 1..Len(b) |-> IF b[i] < 128 THEN b[i] ELSE Replacement]

\* communicate(timeout) without the kill() and wait() that subprocess.run
\* does when the timeout expires
subprocess_run_nokill(cwd_ok, run, timeout) ==
    IF ~cwd_ok \/ ~run.launch THEN [raised |-> "oserror", ex |-> NoExec]
    ELSE IF run.dur < timeout
    THEN [raised |-> "none",
          ex |-> [code |-> run.code, stdout |-> run.out, stderr |-> run.err,
                  proc |-> "exited", elapsed |-> run.dur]]
    ELSE [raised |-> "timeout",
          ex |-> [code |-> 0, stdout |-> run.out, stderr |-> run.err,
                  proc |-> "running", elapsed |-> timeout]]

\* subprocess.run(..., capture_output=True, timeout=timeout): OSError when the
\* process cannot be started; the result when the command ends within the
\* timeout; else the child is killed and waited for and TimeoutExpired
\* carries the bytes read so far.
subprocess_run(cwd_ok, run, timeout) ==
    IF ~cwd_ok \/ ~run.launch THEN [raised |-> "oserror", ex |-> NoExec]
    ELSE IF run.dur < timeout
    THEN [raised |-> "none",
          ex |-> [code |-> run.code, stdout |-> run.out, stderr |-> run.err,
                  proc |-> "exited", elapsed |-> run.dur]]
    ELSE [raised |-> "timeout",
          ex |-> [code |-> 0, stdout |-> run.out, stderr |-> run.err,
                  proc |-> "killed", elapsed |-> timeout]]

\* timeout = payload.get("timeout_sec", 60), 60 again when int() fails
ServerTimeoutDefault == 60
exec_timeout(payload) ==
    IF payload.timeout_sec = <<>> THEN ServerTimeoutDefault ELSE payload.timeout_sec[1]

\* An /exec that answers a failed launch as a result with exit code 0.
exec_answer_as_exit(f, target, r) ==
    LET text == [r.ex EXCEPT !.stdout = decode(r.ex.stdout),
                             !.stderr = decode(r.ex.stderr)]
    IN  [Out(Resp(200, IF r.raised = "timeout" THEN "timeout" ELSE ""),
             f, target, TRUE, 1, <<>>) EXCEPT !.ex = text]

\* the answer of /exec for what subprocess.run did
exec_answer(f, target, r) ==
    LET text == [r.ex EXCEPT !.stdout = decode(r.ex.stdout),
                             !.stderr = decode(r.ex.stderr)]
    IN  IF r.raised = "oserror"
        THEN At(Resp(500, "launch failed"), f, target)
        ELSE [Out(Resp(200, IF r.raised = "timeout" THEN "timeout" ELSE ""),
                  f, target, TRUE, 1, <<>>) EXCEPT !.ex = text]

do_POST(f, bd, path, payload, clen, run) ==
    IF path \in {"/upload", "/write", "/exec"} /\ clen = "malformed"
    THEN Plain(NoResp, f)
    ELSE IF path = "/upload" THEN
        IF payload.path = EmptyRaw THEN Plain(Resp(400, "missing path"), f)
        ELSE
            LET r == _resolve_path(f, bd, payload.path)
                mk == mkdir_parents(f, Parent(r.p))
                d == _b64_decode_maybe(payload.content_b64)
                data == IF d.some THEN d.data ELSE <<>>
                w == write_bytes(mk.fs, r.p, data)
            IN  IF ~r.ok THEN Plain(Resp(400, r.err), f)
                ELSE IF ~mk.ok THEN At(Resp(400, "mkdir failed"), f, r.p)
                ELSE IF ~w.ok THEN At(Resp(400, "write failed"), mk.fs, r.p)
                ELSE At(Resp(200, ""), w.fs, r.p)
    ELSE IF path = "/write" THEN
        IF payload.path = EmptyRaw THEN Plain(Resp(400, "missing path"), f)
        ELSE
            LET d == _b64_decode_maybe(payload.content_b64)
                r == _resolve_path(f, bd, payload.path)
                mk == mkdir_parents(f, Parent(r.p))
                w == write_bytes(mk.fs, r.p, d.data)
            IN  IF ~d.some THEN Plain(Resp(400, "missing/invalid content_b64"), f)
                ELSE IF ~r.ok THEN Plain(Resp(400, r.err), f)
                ELSE IF ~mk.ok THEN At(Resp(400, "mkdir failed"), f, r.p)
                ELSE IF ~w.ok THEN At(Resp(400, "write failed"), mk.fs, r.p)
                ELSE At(Resp(200, ""), w.fs, r.p)
    ELSE IF path = "/exec" THEN
        IF payload.cmd = "" THEN Plain(Resp(400, "missing cmd/cmd_b64"), f)
        ELSE
            LET r == _resolve_path(f, bd,
                        IF payload.cwd = EmptyRaw THEN DotRaw ELSE payload.cwd)
            IN  IF ~r.ok THEN Plain(Resp(400, "bad cwd"), f)
                ELSE exec_answer(f, r.p,
                        subprocess_run(Node(f, r.p).k = "dir", run, exec_timeout(payload)))
    ELSE no_route(f)

(***************************************************************************)
(* Initial states: the agent just started on a host whose filesystem holds *)
(* the base directory /r, a directory /o beside it with a file in it, and  *)
(* /l, a link to /r.  The base directory may already hold links.           *)
(***************************************************************************)
Secret == <<115>>

HostTree ==
    (<<"r">> :> Dir) @@ (<<"o">> :> Dir) @@ (<<"o", "a">> :> File(Secret))
        @@ (<<"l">> :> Link(<<"r">>))

InitLinks ==
    { [x \in {} |-> Absent],
      (<<"r", "a">> :> Link(<<"o">>)),
      (<<"r", "a">> :> Link(<<"o", "a">>)),
      (<<"r", "a">> :> Link(<<"o", "o">>)),
      (<<"r", "o">> :> Link(<<"r">>)) }

\* what the caller sent, where a later question needs it: the raw path, the
\* content and, for /exec, the command's run and the timeout in force
NoReq == [raw |-> EmptyRaw, content |-> <<>>, run |-> NoLaunch, timeout |-> 0]

\* GdriscvGUI.__init__ and the locals of _async_exec_wait before it is
\* called; job is what the command submitted by it has written and whether
\* it has ended, as far as the answers to the polls tell.
\* The attributes: sessions and poll_running (the keys of self.sessions,
\* and self.poll_running).  The threads: init is the tab _init_sessions is at
\* and its next statement, pollers the names with a running _poll_loop,
\* close, todo and size the place of _on_close in its loops.  Kept beside
\* them: created and killed, the names whose create and kill calls have
\* returned; call, the session call issued last; early, the names a send or
\* capture was issued for before their create had returned.
GuiInit ==
    [wait |-> "idle", last_len |-> 0, log |-> <<>>, ret |-> "none",
     failed |-> FALSE, job |-> [lines |-> 0, done |-> FALSE],
     stage4 |-> FALSE, init |-> [i |-> 0, at |-> "none"],
     sessions |-> {}, poll_running |-> [n \in {} |-> FALSE], pollers |-> {},
     close |-> "none", todo |-> {}, size |-> 0,
     created |-> {}, killed |-> {}, call |-> [op |-> "none", name |-> ""],
     early |-> {}]

NoCall == [op |-> "none", status |-> 0, err |-> "", target |-> <<>>,
           acted |-> FALSE, data |-> <<>>, ex |-> NoExec, entries |-> <<>>,
           client |-> "none", req |-> NoReq]

\* A server that handles each request inside its own loop: an exception of a
\* handler ends serve_forever.
serve_forever_unguarded(running, resp) == running /\ resp # NoResp

\* ThreadingHTTPServer.serve_forever(): each request runs on a thread of its
\* own, and what a handler raises ends that thread only.
serve_forever(running, resp) == running

Init ==
    /\ base_dir \in {<<"r">>, <<"l">>}
    /\ fs \in {HostTree @@ l : l \in InitLinks}
    /\ nproc = 0
    /\ last = NoCall
    /\ nreq = 0
    /\ panes = [n \in SessionNames |-> 0]
    /\ inflight = {}
    /\ hist = <<>>
    /\ procs = <<>>
    /\ alive = TRUE
    /\ jobs = [j \in {} |-> "running"]
    /\ gui = GuiInit

\* The handler has run for the request req and its answer is on the wire;
\* client is what the caller makes of it.
Served(op, out, req, client) ==
    /\ alive
    /\ nreq < MaxReq
    /\ fs' = out.fs
    /\ nproc' = nproc + out.spawned
    /\ procs' = IF out.spawned = 1
                THEN Append(procs, [state |-> out.ex.proc, outcome |-> out.resp.err])
                ELSE procs
    /\ last' = [op |-> op, status |-> out.resp.status, err |-> out.resp.err,
                target |-> out.target, acted |-> out.acted, data |-> out.data,
                ex |-> out.ex, entries |-> out.entries, client |-> client,
                req |-> req]
    /\ nreq' = nreq + 1
    /\ alive' = serve_forever(alive, out.resp)
    /\ UNCHANGED <<base_dir, panes, inflight, hist, jobs, gui>>

Answer(op, out) == Served(op, out, NoReq, "none")

\* timeout_sec: <<>> when the key is missing, else <<its number>>
Payload(raw, b64, cmd, cwd) ==
    [path |-> raw, content_b64 |-> b64, cmd |-> cmd, cwd |-> cwd, timeout_sec |-> <<>>]
NoB64 == [t |-> "absent", dec |-> <<>>]

GetLs ==
    \E raw \in RawPaths : Answer("ls", do_GET(fs, base_dir, "/ls", raw))

GetRead ==
    \E raw \in RawPaths : Answer("read", do_GET(fs, base_dir, "/read", raw))

GetDownload ==
    \E raw \in RawPaths : Answer("download", do_GET(fs, base_dir, "/download", raw))

\* A malformed Content-Length is tried with one body only: _read_body()
\* raises before the body is looked at.
PutUpload ==
    \E raw \in RawPaths :
        \E in \in {<<"malformed", <<>>>>} \cup {<<"ok", c>> : c \in Contents} :
            Answer("put_upload", do_PUT(fs, base_dir, "/upload", raw, in[1], in[2]))

PostInputs ==
    {<<EmptyRaw, NoB64, "malformed">>}
        \cup {<<raw, b64, "ok">> : raw \in RawPaths, b64 \in B64Values}

PostUpload ==
    \E in \in PostInputs :
        Answer("post_upload",
               do_POST(fs, base_dir, "/upload", Payload(in[1], in[2], "", EmptyRaw),
                       in[3], Quick))

PostWrite ==
    \E in \in PostInputs :
        Answer("write",
               do_POST(fs, base_dir, "/write", Payload(in[1], in[2], "", EmptyRaw),
                       in[3], Quick))

\* An empty command is tried with one working directory only: the handler
\* answers before it reads cwd.
\* Here the command is taken in three ways: the host cannot start it, it ends
\* at once, it outlasts the default timeout.
ExecInputs ==
    {<<"", EmptyRaw, "malformed", Quick>>, <<"", EmptyRaw, "ok", Quick>>}
        \cup {<<"sh", cwd, "ok", run>> : cwd \in RawPaths, run \in {NoLaunch, Quick, Slow}}

PostExec ==
    \E in \in ExecInputs :
        Answer("exec",
               do_POST(fs, base_dir, "/exec", Payload(EmptyRaw, NoB64, in[1], in[2]),
                       in[3], in[4]))

NextFiles ==
    \/ GetLs
    \/ GetRead
    \/ GetDownload
    \/ PutUpload
    \/ PostUpload
    \/ PostWrite
    \/ PostExec

SpecFiles == Init /\ [][NextFiles]_vars

(***************************************************************************)
(* Terminal sessions: the client (RemoteAPI, TmuxSession of                *)
(* gdriscv_gui.py) posts to /tmux/create, /tmux/send, /tmux/capture and    *)
(* /tmux/kill; each call is answered by do_POST on its own server thread.  *)
(***************************************************************************)
SessionOps == {"create", "send", "capture", "kill"}

\* RemoteAPI._url(path) for the four tmux_* methods
tmux_route(op) ==
    CASE op = "create" -> "/tmux/create"
      [] op = "send" -> "/tmux/send"
      [] op = "capture" -> "/tmux/capture"
      [] op = "kill" -> "/tmux/kill"

\* RemoteAPI._unwrap: raise_for_status() raises for 4xx and 5xx, and requests
\* raises when the server closed the connection without an answer
_unwrap(resp) ==
    IF resp.status = 0 \/ resp.status >= 400 THEN "raised" ELSE "json"

\* A client thread calls TmuxSession.create/send_keys/capture/kill; `at` is the
\* number of session calls answered before this one was sent.
Call(op, name) ==
    /\ Cardinality(inflight) < MaxInflight
    /\ Len(hist) + Cardinality(inflight) < MaxHist
    /\ inflight' = inflight \cup {[op |-> op, name |-> name, at |-> Len(hist)]}
    /\ UNCHANGED <<base_dir, fs, nproc, last, nreq, panes, hist, procs, alive, jobs, gui>>

TmuxCreate == \E n \in SessionNames : Call("create", n)
TmuxSend == \E n \in SessionNames : Call("send", n)
TmuxCapture == \E n \in SessionNames : Call("capture", n)
TmuxKill == \E n \in SessionNames : Call("kill", n)

\* The agent answers one of the calls: the whole of do_POST for its route.
\* No statement of the handler touches a multiplexer, so the panes stay.
ServeSession ==
    \E c \in inflight :
        LET out == do_POST(fs, base_dir, tmux_route(c.op),
                           Payload(EmptyRaw, NoB64, "", EmptyRaw), "ok", Quick)
        IN  /\ alive
            /\ c.op \in SessionOps
            /\ alive' = serve_forever(alive, out.resp)
            /\ fs' = out.fs
            /\ nproc' = nproc + out.spawned
            /\ panes' = panes
            /\ inflight' = inflight \ {c}
            /\ hist' = Append(hist, [op |-> c.op, name |-> c.name, at |-> c.at,
                                     status |-> out.resp.status, err |-> out.resp.err,
                                     client |-> _unwrap(out.resp),
                                     live |-> panes[c.name]])
            /\ UNCHANGED <<base_dir, last, nreq, procs, jobs, gui>>

NextSessions ==
    \/ TmuxCreate
    \/ TmuxSend
    \/ TmuxCapture
    \/ TmuxKill
    \/ ServeSession

SpecSessions == Init /\ [][NextSessions]_vars

(***************************************************************************)
(* Commands run through the client: RemoteAPI.exec posts cmd_b64 and       *)
(* timeout_sec to /exec and waits for the answer for RemoteAPI.timeout     *)
(* seconds.                                                                *)
(***************************************************************************)
\* RemoteAPI.timeout, the timeout= of every requests call
ClientTimeout == 120
\* timeout_sec of RemoteAPI.exec where the caller names none
ExecDefault == 60
\* timeout_sec of _exec_log where the caller names none
ExecLogDefault == 120

\* requests.post(..., timeout=self.timeout) and _unwrap of what came back:
\* requests raises ReadTimeout when the agent has sent nothing within the
\* timeout; the agent sends its answer after the command's elapsed seconds.
requests_post(elapsed, resp) ==
    IF elapsed >= ClientTimeout THEN "ReadTimeout" ELSE _unwrap(resp)

\* RemoteAPI.exec(cmd, timeout_sec); run is what cmd does on the host
exec(run, timeout_sec) ==
    LET body == [Payload(EmptyRaw, NoB64, "sh", EmptyRaw)
                    EXCEPT !.timeout_sec = <<timeout_sec>>]
        out == do_POST(fs, base_dir, "/exec", body, "ok", run)
    IN  Served("exec", out, [NoReq EXCEPT !.run = run, !.timeout = timeout_sec],
               requests_post(out.ex.elapsed, out.resp))

\* self.api.exec(cmd), as _on_save_keys calls it
ApiExec == \E run \in Runs : exec(run, ExecDefault)

\* self._exec_log(cmd), as _run_init calls it
ExecLog == \E run \in Runs : exec(run, ExecLogDefault)

NextExec ==
    \/ ApiExec
    \/ ExecLog

SpecExec == Init /\ [][NextExec]_vars

(***************************************************************************)
(* Background jobs: _async_exec_wait submits a command with                *)
(* RemoteAPI.async_exec and polls RemoteAPI.async_status with the job id   *)
(* of the answer; both post to the agent, which answers by do_POST.        *)
(***************************************************************************)
JobOps == {"async_exec", "async_status"}

\* RemoteAPI._url(path) for async_exec and async_status
job_route(op) ==
    CASE op = "async_exec" -> "/async_exec"
      [] op = "async_status" -> "/async_status"

\* self.api.async_exec(cmd): the call carries no job id
AsyncExec == Call("async_exec", "")

\* self.api.async_status(job_id, ...)
AsyncStatus == \E j \in JobIds : Call("async_status", j)

\* The agent answers one of the calls: the whole of do_POST for its route.
\* No statement of the handler reads or writes a job record, so jobs stays.
ServeJob ==
    \E c \in inflight :
        LET out == do_POST(fs, base_dir, job_route(c.op),
                           Payload(EmptyRaw, NoB64, "sh", EmptyRaw), "ok", Quick)
        IN  /\ alive
            /\ c.op \in JobOps
            /\ alive' = serve_forever(alive, out.resp)
            /\ fs' = out.fs
            /\ nproc' = nproc + out.spawned
            /\ jobs' = jobs
            /\ inflight' = inflight \ {c}
            /\ hist' = Append(hist, [op |-> c.op, name |-> c.name, at |-> c.at,
                                     status |-> out.resp.status, err |-> out.resp.err,
                                     client |-> _unwrap(out.resp),
                                     known |-> c.name \in DOMAIN jobs])
            /\ UNCHANGED <<base_dir, last, nreq, panes, procs, gui>>

NextJobs ==
    \/ AsyncExec
    \/ AsyncStatus
    \/ ServeJob

SpecJobs == Init /\ [][NextJobs]_vars

\* The client as a whole: its session calls and its job calls.
NextClient ==
    \/ NextSessions
    \/ NextJobs

SpecClient == Init /\ [][NextClient]_vars

(***************************************************************************)
(* Files through the client: RemoteAPI.write_file and RemoteAPI.read_file, *)
(* and GET /ls.                                                            *)
(***************************************************************************)
\* base64.b64encode(content.encode()).decode(): "" for an empty content
b64encode(c) == [t |-> "b64", dec |-> c]

\* RemoteAPI.write_file(path, content)
WriteFile ==
    \E raw \in RawPaths, c \in Contents :
        LET out == do_POST(fs, base_dir, "/write",
                           Payload(raw, b64encode(c), "", EmptyRaw), "ok", Quick)
        IN  Served("write", out, [NoReq EXCEPT !.raw = raw, !.content = c],
                   _unwrap(out.resp))

\* RemoteAPI.read_file(path)
ReadFile ==
    \E raw \in RawPaths :
        LET out == do_GET(fs, base_dir, "/read", raw)
        IN  Served("read", out, [NoReq EXCEPT !.raw = raw], _unwrap(out.resp))

NextRoundTrip ==
    \/ WriteFile
    \/ ReadFile
    \/ GetLs

SpecRoundTrip == Init /\ [][NextRoundTrip]_vars


(***************************************************************************)
(* Path confinement                                                        *)
(***************************************************************************)
CanonRoot == resolve(fs, base_dir).p

\* The canonical form of base / raw, computed from the filesystem alone.
CanonTarget(raw) == resolve(fs, JoinPath(CanonRoot, lstrip(raw)))

Inside(p) == IsPrefix(CanonRoot, p)

\* C1: the path a list, read, download, write or upload call used, and the
\* working directory an exec call used, is canonically the root or below it;
\* and every raw path whose canonical target is outside the canonical root is
\* refused by _resolve_path with "path escapes base dir".
C1_PathConfinement ==
    /\ last.acted =>
          /\ resolve(fs, last.target).ok
          /\ Inside(resolve(fs, last.target).p)
    /\ \A raw \in RawPaths :
          (CanonTarget(raw).ok /\ ~Inside(CanonTarget(raw).p)) =>
              /\ ~_resolve_path(fs, base_dir, raw).ok
              /\ _resolve_path(fs, base_dir, raw).err = "path escapes base dir"

HasDotDot(raw) == \E i \in 1..Len(raw.segs) : raw.segs[i] = ".."

\* A write was just refused as an escape in a root that holds a link leading
\* out of it, where a raw path without ".." escapes, one with ".." escapes,
\* and an earlier call did use a path inside the root.
C1_Witness ==
    /\ last.op \in {"write", "post_upload", "put_upload"}
    /\ last.status = 400
    /\ last.err = "path escapes base dir"
    /\ nreq = 2
    /\ \E p \in DOMAIN fs : Node(fs, p).k = "file" /\ Inside(p)
    /\ \E raw \in RawPaths :
          ~HasDotDot(raw) /\ CanonTarget(raw).ok /\ ~Inside(CanonTarget(raw).p)
    /\ \E raw \in RawPaths :
          HasDotDot(raw) /\ raw.lead = 1 /\ ~Inside(CanonTarget(raw).p)

(***************************************************************************)
(* Rejection before side effects                                           *)
(***************************************************************************)
\* C2: a write-file, upload or run-command call answered 400 (PathEscape or
\* BadRequest) leaves the filesystem as it was and starts no process.
C2_RejectedBeforeSideEffect ==
    [][ (nreq' = nreq + 1
            /\ last'.op \in {"write", "post_upload", "put_upload", "exec"}
            /\ last'.status = 400)
        => (fs' = fs /\ nproc' = nproc) ]_vars

(***************************************************************************)
(* Terminal sessions                                                       *)
(***************************************************************************)
\* The step answers a session call: e is its record.
Answered == Len(hist') = Len(hist) + 1
JustAnswered == hist'[Len(hist')]

\* No create or kill of name n is on the wire.
Quiet(n) == \A c \in inflight : c.name = n => c.op \notin {"create", "kill"}

\* C7: create(n) and kill(n) are serialized per name: after kill then create
\* the fresh pane is live, after create then kill no pane is live, two
\* overlapping calls end in one of these two states, and a call in flight on
\* one name does not keep the agent from answering a call on another.
C7_CreateKillSerialized ==
    /\ \A i \in 1..Len(hist) :
          (/\ i > 1
           /\ i = Len(hist)
           /\ hist[i].name = hist[i - 1].name
           /\ {hist[i - 1].op, hist[i].op} = {"create", "kill"}
           /\ Quiet(hist[i].name))
          => /\ panes[hist[i].name] \in {0, 1}
             /\ (hist[i].op = "create" /\ hist[i].at >= i - 1)
                   => panes[hist[i].name] = 1
             /\ (hist[i].op = "kill" /\ hist[i].at >= i - 1)
                   => panes[hist[i].name] = 0
    /\ inflight # {} => ENABLED ServeSession

\* C8: create(name) succeeds whether or not the name has a live pane, and a
\* create reported as success leaves exactly one live pane of that name until
\* the next create or kill of the name.
C8_CreateSucceeds ==
    \A i \in 1..Len(hist) :
        hist[i].op = "create" =>
            /\ hist[i].status = 200
            /\ hist[i].client = "json"
            /\ (/\ Quiet(hist[i].name)
                /\ \A j \in (i + 1)..Len(hist) :
                      hist[j].name = hist[i].name => hist[j].op \notin {"create", "kill"})
               => panes[hist[i].name] = 1

\* C9: a send to a name that has no live pane is answered not_found (404),
\* which the client sees as a raised error, and it leaves the panes and the
\* filesystem as they were; a send is reported as done only for a live pane.
C9_SendNotFound ==
    [][ (Answered /\ JustAnswered.op = "send") =>
            /\ panes[JustAnswered.name] = 0 =>
                  /\ JustAnswered.status = 404
                  /\ JustAnswered.err = "not_found"
                  /\ JustAnswered.client = "raised"
                  /\ panes' = panes
                  /\ fs' = fs
            /\ JustAnswered.client = "json" => panes[JustAnswered.name] >= 1 ]_vars

\* A send was answered not_found for a name that was never created, and one
\* for a name whose kill had been answered before the send was made.
C9_Witness ==
    /\ \E i \in 1..Len(hist) :
          /\ hist[i].op = "send" /\ hist[i].live = 0 /\ hist[i].status = 404
          /\ \A j \in 1..(i - 1) : hist[j].name # hist[i].name
    /\ \E i, j \in 1..Len(hist) :
          /\ j < i /\ hist[j].op = "kill" /\ hist[j].name = hist[i].name
          /\ hist[i].at >= j
          /\ hist[i].op = "send" /\ hist[i].status = 404 /\ hist[i].client = "raised"

\* C10: a kill of a name that has no live pane reports success and leaves
\* every session as it was (so a second kill ends as the first did).
C10_KillNoop ==
    [][ (Answered /\ JustAnswered.op = "kill" /\ panes[JustAnswered.name] = 0) =>
            /\ JustAnswered.status = 200
            /\ JustAnswered.client = "json"
            /\ panes' = panes ]_vars

\* The agent started in the plain root.
InitPlain ==
    /\ Init
    /\ base_dir = <<"r">>
    /\ fs = HostTree

(***************************************************************************)
(* GdriscvGUI._async_exec_wait: submit a command, then poll its status     *)
(* with a tail of 80 lines until it is done.  The answers to async_exec    *)
(* and async_status are inputs of the loop: a call raises, or it is        *)
(* answered; a line of the job's output is the number of its place in it.  *)
(***************************************************************************)
\* tail_lines of the async_status calls of the loop
TailLines == 80

\* stdout_tail of an answer: the last k lines of the n written so far
tail(n, k) ==
    LET m == IF n < k THEN n ELSE k
    IN  [i \in 1..m |-> n - m + i]

\* A loop that returns whatever status the answer has.
loop_exit_any(s) == TRUE

\* if s.get("status") == "done": ... return s
loop_exit(s) == s.status = "done"

\* r = self.api.async_exec(cmd): the call raises, is answered with ok false,
\* or is answered ok with or without a job_id
WaitSubmit ==
    /\ gui.wait = "idle"
    /\ \E r \in {"raised", "not_ok", "ok_no_id", "ok"} :
          gui' = [gui EXCEPT
                    !.wait = CASE r = "ok" -> "polling"
                               [] r = "not_ok" -> "returned"
                               [] OTHER -> "raised",
                    !.ret = IF r = "not_ok" THEN "submit" ELSE "none",
                    !.failed = (r = "raised")]
    /\ UNCHANGED <<base_dir, fs, nproc, last, nreq, panes, inflight, hist, procs,
                   alive, jobs>>

\* the submitted command writes a line
JobWrites ==
    /\ gui.wait = "polling"
    /\ ~gui.job.done
    /\ gui.job.lines < MaxLines
    /\ gui' = [gui EXCEPT !.job.lines = @ + 1]
    /\ UNCHANGED <<base_dir, fs, nproc, last, nreq, panes, inflight, hist, procs,
                   alive, jobs>>

\* the submitted command ends
JobEnds ==
    /\ gui.wait = "polling"
    /\ ~gui.job.done
    /\ gui' = [gui EXCEPT !.job.done = TRUE]
    /\ UNCHANGED <<base_dir, fs, nproc, last, nreq, panes, inflight, hist, procs,
                   alive, jobs>>

\* One turn of `while True`: sleep, async_status(job_id, tail_lines=80), log
\* lines[last_len:], return s when it is done.  The call raises or is answered.
WaitPoll ==
    /\ gui.wait = "polling"
    /\ \E answered \in BOOLEAN :
          LET s == [status |-> IF gui.job.done THEN "done" ELSE "running",
                    stdout_tail |-> tail(gui.job.lines, TailLines)]
              lines == s.stdout_tail
              more == Len(lines) > gui.last_len
          IN  gui' = IF ~answered
                     THEN [gui EXCEPT !.wait = "raised", !.failed = TRUE]
                     ELSE [gui EXCEPT
                             !.log = IF more
                                     THEN @ \o SubSeq(lines, gui.last_len + 1, Len(lines))
                                     ELSE @,
                             !.last_len = IF more THEN Len(lines) ELSE @,
                             !.wait = IF loop_exit(s) THEN "returned" ELSE @,
                             !.ret = IF loop_exit(s) THEN s.status ELSE @]
    /\ UNCHANGED <<base_dir, fs, nproc, last, nreq, panes, inflight, hist, procs,
                   alive, jobs>>

NextWait ==
    \/ WaitSubmit
    \/ JobWrites
    \/ JobEnds
    \/ WaitPoll

SpecWait == InitPlain /\ [][NextWait]_vars

\* The thread that runs the loop keeps running: a turn that can be taken is taken.
SpecWaitFair == SpecWait /\ WF_vars(WaitPoll)

(***************************************************************************)
(* The terminal tabs of the client: build_stage4 starts _init_sessions on  *)
(* a thread, which creates a session per tab and starts its _poll_loop;    *)
(* <Return> in a tab runs _send_to_session on a thread; closing the window *)
(* runs _on_close.  The answers to the session calls are inputs: a call    *)
(* raises or returns.                                                      *)
(***************************************************************************)
\* tabs of build_stage4, and whether a tab has a start_cmd
Tabs == <<"claude", "codex", "shell">>
StartCmd == <<TRUE, TRUE, FALSE>>
TabNames == {Tabs[i] : i \in 1..Len(Tabs)}
TabIndex(n) == CHOOSE i \in 1..Len(Tabs) : Tabs[i] = n

\* A lookup that makes the session when the name has none.
session_of_default(sessions, name) == TRUE

\* self.sessions[name]: found, or KeyError
session_of(sessions, name) == name \in sessions

\* the process of the client is running
Running == gui.close # "done"

\* a send or capture call for name goes out
Issue(g, op, name) ==
    [g EXCEPT !.call = [op |-> op, name |-> name],
              !.early = IF name \in g.created THEN @ ELSE @ \cup {name}]

OnlyGui ==
    UNCHANGED <<base_dir, fs, nproc, last, nreq, panes, inflight, hist, procs,
                alive, jobs>>

\* self._bg(self._init_sessions, tabs)
BuildStage4 ==
    /\ Running
    /\ ~gui.stage4
    /\ gui' = [gui EXCEPT !.stage4 = TRUE, !.init = [i |-> 1, at |-> "create"]]
    /\ OnlyGui

\* sess.create(): the call goes out
InitCreateCall ==
    /\ Running
    /\ gui.init.at = "create"
    /\ gui' = [gui EXCEPT !.init.at = "creating",
                          !.call = [op |-> "create", name |-> Tabs[gui.init.i]]]
    /\ OnlyGui

\* sess.create() returns and self.sessions[name] = sess, or the call raises
\* and the thread ends
InitCreateRet ==
    /\ Running
    /\ gui.init.at = "creating"
    /\ \E ok \in BOOLEAN :
          LET n == Tabs[gui.init.i]
          IN  gui' = IF ok
                     THEN [gui EXCEPT !.created = @ \cup {n},
                                      !.killed = @ \ {n},
                                      !.sessions = @ \cup {n},
                                      !.init.at = IF StartCmd[gui.init.i]
                                                  THEN "send" ELSE "start"]
                     ELSE [gui EXCEPT !.init.at = "dead"]
    /\ OnlyGui

\* if start_cmd: sess.send_keys(start_cmd)
InitSend ==
    /\ Running
    /\ gui.init.at = "send"
    /\ \E ok \in BOOLEAN :
          gui' = [Issue(gui, "send", Tabs[gui.init.i]) EXCEPT
                    !.init.at = IF ok THEN "start" ELSE "dead"]
    /\ OnlyGui

\* self.poll_running[name] = True; self._bg(self._poll_loop, name); next tab
InitStart ==
    /\ Running
    /\ gui.init.at = "start"
    /\ LET n == Tabs[gui.init.i]
       IN  gui' = [gui EXCEPT
                     !.poll_running = (n :> TRUE) @@ @,
                     !.pollers = @ \cup {n},
                     !.init = IF gui.init.i < Len(Tabs)
                              THEN [i |-> gui.init.i + 1, at |-> "create"]
                              ELSE [i |-> gui.init.i, at |-> "finished"]]
    /\ OnlyGui

\* poll_running.get(name)
poll_flag(g, n) == n \in DOMAIN g.poll_running /\ g.poll_running[n]

\* One turn of _poll_loop: the loop ends when the flag is off, else it calls
\* capture (a KeyError or a failed call is passed over) and sleeps.
PollTurn ==
    /\ Running
    /\ \E n \in gui.pollers :
          gui' = IF ~poll_flag(gui, n) THEN [gui EXCEPT !.pollers = @ \ {n}]
                 ELSE IF session_of(gui.sessions, n) THEN Issue(gui, "capture", n)
                 ELSE [gui EXCEPT !.call = [op |-> "none", name |-> n]]
    /\ OnlyGui

\* _on_term_send / _send_to_session: send_keys on self.sessions[name]; a
\* KeyError or a failed call is logged and passed over
OnTermSend ==
    /\ Running
    /\ gui.stage4
    /\ \E n \in TabNames :
          gui' = IF session_of(gui.sessions, n) THEN Issue(gui, "send", n)
                 ELSE [gui EXCEPT !.call = [op |-> "none", name |-> n]]
    /\ OnlyGui

\* _on_close, first loop: every flag there is is set to False; then the
\* second loop starts on self.sessions.values()
CloseFlags ==
    /\ Running
    /\ gui.close = "none"
    /\ gui' = [gui EXCEPT
                  !.poll_running = [n \in DOMAIN @ |-> FALSE],
                  !.close = "kill",
                  !.todo = gui.sessions,
                  !.size = Cardinality(gui.sessions)]
    /\ OnlyGui

\* the next value of the dict iterator: RuntimeError when the dict has
\* changed size, which ends _on_close before root.destroy()
next_raises(g) == Cardinality(g.sessions) # g.size

\* One turn of the second loop: the iterator raises, or is through, or
\* gives the next session in the order they were put in, and s.kill() is
\* called on it
CloseKill ==
    /\ Running
    /\ gui.close = "kill"
    /\ LET n == CHOOSE x \in gui.todo :
                    \A y \in gui.todo : TabIndex(x) <= TabIndex(y)
       IN  gui' = IF next_raises(gui) THEN [gui EXCEPT !.close = "raised"]
                  ELSE IF gui.todo = {} THEN [gui EXCEPT !.close = "destroy"]
                  ELSE [gui EXCEPT !.todo = @ \ {n}, !.killed = @ \cup {n},
                                   !.call = [op |-> "kill", name |-> n]]
    /\ OnlyGui

\* self.root.destroy(): mainloop returns and the process ends with its
\* daemon threads
CloseDestroy ==
    /\ Running
    /\ gui.close = "destroy"
    /\ gui' = [gui EXCEPT !.close = "done"]
    /\ OnlyGui

NextGui ==
    \/ BuildStage4
    \/ InitCreateCall
    \/ InitCreateRet
    \/ InitSend
    \/ InitStart
    \/ PollTurn
    \/ OnTermSend
    \/ CloseFlags
    \/ CloseKill
    \/ CloseDestroy

SpecGui == InitPlain /\ [][NextGui]_vars

(***************************************************************************)
(* The structured write routes, POST /write and POST /upload, with the     *)
(* content_b64 of the body kept beside the answer.                         *)
(***************************************************************************)
WriteBody(route, op) ==
    \E raw \in RawPaths, b64 \in B64Values :
        LET out == do_POST(fs, base_dir, route, Payload(raw, b64, "", EmptyRaw),
                           "ok", Quick)
        IN  Served(op, out,
                   [raw |-> raw, content |-> b64.dec, run |-> NoLaunch,
                    timeout |-> 0, b64 |-> b64],
                   _unwrap(out.resp))

PostWriteBody == WriteBody("/write", "write")

PostUploadBody == WriteBody("/upload", "post_upload")

NextWrites ==
    \/ PostWriteBody
    \/ PostUploadBody

SpecWrites == Init /\ [][NextWrites]_vars

(***************************************************************************)
(* Request bodies: _parse_body_as_object on the text of a body.  A text is *)
(* the sequence of its characters.                                         *)
(***************************************************************************)
\* str.strip() for the whitespace a body here can hold, the space
RECURSIVE lstrip_ws(_)
lstrip_ws(t) ==
    IF t # <<>> /\ Head(t) = " " THEN lstrip_ws(Tail(t)) ELSE t

RECURSIVE rstrip_ws(_)
rstrip_ws(t) ==
    IF t # <<>> /\ t[Len(t)] = " " THEN rstrip_ws(SubSeq(t, 1, Len(t) - 1)) ELSE t

strip(t) == rstrip_ws(lstrip_ws(t))

\* the first index >= i of t that holds ch, Len(t) + 1 when there is none
RECURSIVE find(_, _, _)
find(t, ch, i) ==
    IF i > Len(t) THEN Len(t) + 1
    ELSE IF t[i] = ch THEN i ELSE find(t, ch, i + 1)

\* ch in t
contains(t, ch) == find(t, ch, 1) <= Len(t)

\* t.split(ch)
RECURSIVE split(_, _)
split(t, ch) ==
    LET i == find(t, ch, 1)
    IN  IF i > Len(t) THEN <<t>>
        ELSE <<SubSeq(t, 1, i - 1)>> \o split(SubSeq(t, i + 1, Len(t)), ch)

\* a decoded value: a string (its characters) or a nested object (its text)
Str(cs) == [t |-> "str", s |-> cs]
Obj(cs) == [t |-> "obj", s |-> cs]
EmptyMap == [x \in {} |-> Str(<<>>)]

\* d[k] = v of a dict: a key set again takes the new value
put(d, k, v) == (k :> v) @@ d

\* the JSON decoder's whitespace skip
RECURSIVE skip_ws(_, _)
skip_ws(t, i) ==
    IF i <= Len(t) /\ t[i] = " " THEN skip_ws(t, i + 1) ELSE i

JsonFail == [ok |-> FALSE, next |-> 0, kind |-> "none", obj |-> EmptyMap, val |-> Str(<<>>)]

\* a JSON string at i: the characters up to the next quote
json_string(t, i) ==
    IF i <= Len(t) /\ t[i] = "\"" /\ find(t, "\"", i + 1) <= Len(t)
    THEN LET j == find(t, "\"", i + 1)
         IN  [ok |-> TRUE, next |-> j + 1, kind |-> "str", obj |-> EmptyMap,
              val |-> Str(SubSeq(t, i + 1, j - 1))]
    ELSE JsonFail

\* json.loads on the characters a body here can hold: a value is a string or
\* an object; an object is { }, or { "key" : value , ... } with a value
\* after each key and no comma before the closing brace.
RECURSIVE json_value(_, _)
RECURSIVE json_members(_, _, _, _)
json_members(t, start, i, acc) ==
    LET k == json_string(t, skip_ws(t, i))
        c == skip_ws(t, k.next)
        v == json_value(t, skip_ws(t, c + 1))
        e == skip_ws(t, v.next)
        got == put(acc, k.val.s, v.val)
    IN  IF ~k.ok \/ c > Len(t) \/ t[c] # ":" THEN JsonFail
        ELSE IF ~v.ok \/ e > Len(t) THEN JsonFail
        ELSE IF t[e] = "}"
             THEN [ok |-> TRUE, next |-> e + 1, kind |-> "obj", obj |-> got,
                   val |-> Obj(SubSeq(t, start, e))]
        ELSE IF t[e] = "," THEN json_members(t, start, e + 1, got)
        ELSE JsonFail

json_value(t, i) ==
    IF i > Len(t) THEN JsonFail
    ELSE IF t[i] = "\"" THEN json_string(t, i)
    ELSE IF t[i] = "{"
         THEN LET j == skip_ws(t, i + 1)
              IN  IF j <= Len(t) /\ t[j] = "}"
                  THEN [ok |-> TRUE, next |-> j + 1, kind |-> "obj", obj |-> EmptyMap,
                        val |-> Obj(SubSeq(t, i, j))]
                  ELSE json_members(t, i, i + 1, EmptyMap)
    ELSE JsonFail

\* obj = json.loads(text) and isinstance(obj, dict); a text that is no JSON
\* document makes json.loads raise, which the parser passes over
json_loads(t) ==
    LET r == json_value(t, skip_ws(t, 1))
    IN  IF r.ok /\ skip_ws(t, r.next) = Len(t) + 1 THEN r ELSE JsonFail

\* key, value = part.split("=", 1)
split1(t, ch) ==
    LET i == find(t, ch, 1)
    IN  [key |-> SubSeq(t, 1, i - 1), value |-> SubSeq(t, i + 1, Len(t))]

\* the loop over inner.split(",") of the Map.toString() branch
RECURSIVE map_parts(_, _)
map_parts(parts, out) ==
    IF parts = <<>> THEN out
    ELSE LET part == strip(Head(parts))
             kv == split1(part, "=")
         IN  IF part = <<>> \/ ~contains(part, "=")
             THEN map_parts(Tail(parts), out)
             ELSE map_parts(Tail(parts), put(out, strip(kv.key), Str(strip(kv.value))))

\* parse_qs(text, keep_blank_values=True) and v[-1] of each key: an empty
\* field is skipped, a field without "=" has the empty value
RECURSIVE query_parts(_, _)
query_parts(parts, out) ==
    IF parts = <<>> THEN out
    ELSE LET part == Head(parts)
             kv == split1(part, "=")
         IN  IF part = <<>> THEN query_parts(Tail(parts), out)
             ELSE query_parts(Tail(parts), put(out, kv.key, Str(kv.value)))

\* text.startswith("{") and text.endswith("}") and "=" in text
map_like(text) ==
    text # <<>> /\ Head(text) = "{" /\ text[Len(text)] = "}" /\ contains(text, "=")

\* "=" in text and "&" in text
query_like(text) == contains(text, "=") /\ contains(text, "&")

map_text(text) ==
    LET inner == strip(SubSeq(text, 2, Len(text) - 1))
    IN  IF inner = <<>> THEN EmptyMap ELSE map_parts(split(inner, ","), EmptyMap)

query_text(text) == query_parts(split(text, "&"), EmptyMap)

\* A parser that tries the Map.toString() form before JSON.
_parse_body_as_object_map_first(body) ==
    LET text == strip(body)
        j == json_loads(text)
    IN  IF text = <<>> THEN EmptyMap
        ELSE IF map_like(text) THEN map_text(text)
        ELSE IF j.ok /\ j.kind = "obj" THEN j.obj
        ELSE IF query_like(text) THEN query_text(text)
        ELSE EmptyMap

_parse_body_as_object(body) ==
    LET text == strip(body)
        j == json_loads(text)
    IN  IF text = <<>> THEN EmptyMap
        ELSE IF j.ok /\ j.kind = "obj" THEN j.obj
        ELSE IF map_like(text) THEN map_text(text)
        ELSE IF query_like(text) THEN query_text(text)
        ELSE EmptyMap

\* The pieces bodies are put together from: single characters, a key=value
\* pair, a JSON member whose string holds "=", and a JSON string.
Pieces ==
    { <<"{">>, <<"}">>, <<",">>, <<"&">>, <<"=">>, <<"k">>, <<" ">>,
      <<"k", "=", "v">>,
      <<"\"", "k", "\"", ":", "\"", "v", "=", "k", "\"">>,
      <<"\"", "v", "\"">> }

RECURSIVE Flatten(_)
Flatten(ps) == IF ps = <<>> THEN <<>> ELSE Head(ps) \o Flatten(Tail(ps))

Bodies == {Flatten(ps) : ps \in SeqsUpTo(Pieces, MaxPieces)}

InitParse == InitPlain

\* A handler reads a body and decodes it: payload = _parse_body_as_object(...).
\* One body is decoded in a run.
ParseBody ==
    /\ alive
    /\ last = NoCall
    /\ \E body \in Bodies :
          last' = [NoCall EXCEPT !.op = "parse",
                                 !.req = [raw |-> EmptyRaw, content |-> body,
                                          run |-> NoLaunch, timeout |-> 0,
                                          parsed |-> _parse_body_as_object(body)]]
    /\ UNCHANGED <<base_dir, fs, nproc, nreq, panes, inflight, hist, procs,
                   alive, jobs, gui>>

NextParse == ParseBody

SpecParse == InitParse /\ [][NextParse]_vars

(***************************************************************************)
(* Commands and their deadline                                             *)
(***************************************************************************)
\* The call answered last ran a command that was started.
RanCommand == last.op = "exec" /\ last.req.run.launch

PastDeadline == RanCommand /\ last.req.run.dur >= last.req.timeout
BeforeDeadline == RanCommand /\ last.req.run.dur < last.req.timeout

\* C11: a run-command call whose command runs past its deadline comes back
\* to the caller as an answered call (HTTP 200, parsed by the client) whose
\* outcome is "timeout" and which carries the output captured so far; the
\* caller never gets a transport failure or a request error instead.
C11_TimeoutIsResult ==
    PastDeadline =>
        /\ last.status = 200
        /\ last.err = "timeout"
        /\ Len(last.ex.stdout) = Len(last.req.run.out)
        /\ Len(last.ex.stderr) = Len(last.req.run.err)
        /\ last.client = "json"

\* C12: a process whose call was answered "timeout" was killed and waited
\* for before the answer, and is not running in any state from then on.
C12_TimedOutProcessGone ==
    \A i \in 1..Len(procs) :
        procs[i].outcome = "timeout" => procs[i].state = "killed"

\* A command timed out, and another call was answered after it.
C12_Witness ==
    /\ Len(procs) = 2
    /\ procs[1].outcome = "timeout"
    /\ procs[1].state = "killed"
    /\ procs[2].state = "exited"

\* t is exactly the output b: the bytes are UTF-8 and t is the text they spell
ExactText(b, t) ==
    /\ \A i \in 1..Len(b) : b[i] < 128
    /\ t = b

\* t is the output b with every byte that is no UTF-8 replaced by U+FFFD
ReplacedText(b, t) ==
    /\ Len(t) = Len(b)
    /\ \A i \in 1..Len(b) :
          /\ b[i] < 128 => t[i] = b[i]
          /\ b[i] >= 128 => t[i] = 65533

\* C13 as the specification has it: a command that ends before its deadline
\* is answered with a result that is no timeout, whose exit code is the
\* command's and whose stdout and stderr are exactly what it wrote.
C13_ExactOutput ==
    BeforeDeadline =>
        /\ last.status = 200
        /\ last.err = ""
        /\ last.client = "json"
        /\ last.ex.code = last.req.run.code
        /\ ExactText(last.req.run.out, last.ex.stdout)
        /\ ExactText(last.req.run.err, last.ex.stderr)

\* C13: a command that ends before its deadline is answered with a result
\* that is no timeout, whose exit code is the command's and whose stdout and
\* stderr are what it wrote, decoded as UTF-8 with each undecodable byte
\* replaced by U+FFFD.
C13_OutputDecoded ==
    BeforeDeadline =>
        /\ last.status = 200
        /\ last.err = ""
        /\ last.client = "json"
        /\ last.ex.code = last.req.run.code
        /\ ReplacedText(last.req.run.out, last.ex.stdout)
        /\ ReplacedText(last.req.run.err, last.ex.stderr)

\* A command that wrote a byte that is no UTF-8 to stdout and ASCII to stderr
\* and left with status 3 was answered.
C13_Witness ==
    /\ BeforeDeadline
    /\ last.req.run.out = <<255>>
    /\ last.req.run.err = <<104>>
    /\ last.req.run.code = 3
    /\ last.ex.stdout = <<65533>>
    /\ last.ex.stderr = <<104>>
    /\ last.req.timeout = 120
    /\ last.req.run.dur = 90

(***************************************************************************)
(* Background jobs                                                         *)
(***************************************************************************)
\* C14: a submit is answered with a job id and the job's record exists from
\* the answer on, so that no later status query for the id is NotFound.
C14_SubmitReturnsId ==
    \A i \in 1..Len(hist) :
        hist[i].op = "async_exec" =>
            /\ hist[i].status = 200
            /\ hist[i].client = "json"
            /\ DOMAIN jobs # {}

\* the job ids an answered submit gave to the client
Returned ==
    {j \in JobIds : \E i \in 1..Len(hist) :
        hist[i].op = "async_exec" /\ hist[i].client = "json" /\ j \in DOMAIN jobs}

\* C15: a status query for a job id that no submit returned is answered
\* not_found (404), which the client sees as a raised error, and the query
\* leaves every job record as it was and creates none.
C15_StatusNotFound ==
    [][ (Answered /\ JustAnswered.op = "async_status"
            /\ JustAnswered.name \notin Returned) =>
            /\ JustAnswered.status = 404
            /\ JustAnswered.err = "not_found"
            /\ JustAnswered.client = "raised"
            /\ jobs' = jobs ]_vars

\* A status query was answered not_found after a submit had been answered,
\* and one while a submit was still on the wire.
C15_Witness ==
    /\ \E i, j \in 1..Len(hist) :
          /\ j < i /\ hist[j].op = "async_exec" /\ hist[i].at >= j
          /\ hist[i].op = "async_status" /\ hist[i].status = 404
          /\ hist[i].client = "raised" /\ ~hist[i].known
    /\ DOMAIN jobs = {}

DirOf(raw) == [raw EXCEPT !.segs = Parent(raw.segs)]

\* C19: listing "." of an empty root gives no entries; and right after a
\* successful write-file(p, c), reading p gives c and listing p's directory
\* gives exactly one entry of p's name, which is no directory and has the
\* size of c.
C19_WriteReadList ==
    /\ Children(fs, CanonRoot) = {} =>
          /\ do_GET(fs, base_dir, "/ls", DotRaw).resp.status = 200
          /\ do_GET(fs, base_dir, "/ls", DotRaw).entries = <<>>
    /\ (last.op = "write" /\ last.status = 200 /\ last.req.raw.segs # <<>>) =>
          LET raw == last.req.raw
              name == raw.segs[Len(raw.segs)]
              rd == do_GET(fs, base_dir, "/read", raw)
              ls == do_GET(fs, base_dir, "/ls", DirOf(raw))
              named == {i \in 1..Len(ls.entries) : ls.entries[i].name = name}
          IN  /\ rd.resp.status = 200
              /\ rd.data = last.req.content
              /\ ls.resp.status = 200
              /\ Cardinality(named) = 1
              /\ \A i \in named :
                    /\ ~ls.entries[i].is_dir
                    /\ ls.entries[i].size = Len(last.req.content)

(***************************************************************************)
(* Dispatch                                                                *)
(***************************************************************************)
\* C20: no call the client makes on /async_exec, /async_status,
\* /tmux/create, /tmux/send, /tmux/capture or /tmux/kill is answered with
\* the route-level not_found.
C20_EveryRouteDispatched ==
    \A i \in 1..Len(hist) :
        hist[i].op \in JobOps \cup SessionOps =>
            ~(hist[i].status = 404 /\ hist[i].err = "not_found")

(***************************************************************************)
(* Commands that cannot be started                                         *)
(***************************************************************************)
\* the body of a run-command request with working directory cwd
ExecBody(cwd) == Payload(EmptyRaw, NoB64, "sh", cwd)

\* the raw working directory as the handler reads it: "." when it is empty
CwdOf(cwd) == IF cwd = EmptyRaw THEN DotRaw ELSE cwd

\* C21: in every state the agent can be in, a run-command request whose
\* working directory is canonically outside the root is answered 400 "bad
\* cwd", and one whose working directory is no directory or whose process
\* the host cannot start is answered with an error status; both start no
\* process and carry neither an exit code nor the timeout outcome.  And the
\* exec call answered last, if answered with an error, started no process.
C21_LaunchFailureIsError ==
    /\ \A cwd \in RawPaths, run \in {NoLaunch, Quick, Slow} :
          LET out == do_POST(fs, base_dir, "/exec", ExecBody(cwd), "ok", run)
              t == CanonTarget(CwdOf(cwd))
              escapes == t.ok /\ ~Inside(t.p)
              nolaunch == t.ok /\ Inside(t.p) /\ (Node(fs, t.p).k # "dir" \/ ~run.launch)
          IN  /\ escapes => (out.resp.status = 400 /\ out.resp.err = "bad cwd")
              /\ nolaunch => out.resp.status >= 400
              /\ (escapes \/ nolaunch) =>
                    /\ out.spawned = 0
                    /\ out.ex = NoExec
                    /\ out.resp.err # "timeout"
                    /\ out.fs = fs
    /\ (last.op = "exec" /\ last.status >= 400) =>
          (last.ex = NoExec /\ last.client = "none")

\* An exec call was just answered 500 for a working directory the root does
\* not hold or a process the host could not start, no process was ever
\* started, and the root holds a link whose raw path escapes.
C21_Witness ==
    /\ last.op = "exec"
    /\ last.status = 500
    /\ last.acted
    /\ nproc = 0
    /\ procs = <<>>
    /\ nreq = 2
    /\ \E cwd \in RawPaths :
          ~HasDotDot(cwd) /\ CanonTarget(cwd).ok /\ ~Inside(CanonTarget(cwd).p)
    /\ \E cwd \in RawPaths :
          CanonTarget(cwd).ok /\ Inside(CanonTarget(cwd).p)
              /\ Node(fs, CanonTarget(cwd).p).k = "file"

(***************************************************************************)
(* Decoding of request bodies                                              *)
(***************************************************************************)
Decoded == last.op = "parse"
BodyText == strip(last.req.content)
AsJson == json_loads(BodyText)
IsJsonObject == AsJson.ok /\ AsJson.kind = "obj"

\* C23: a body that is a JSON object decodes to that object whatever else it
\* looks like; a body that is none decodes as {key=value, ...} text when it
\* has that shape, else as URL-query text when it has "=" and "&"; an empty
\* body and a body of no such shape decode to the empty map.
C23_DecodingChain ==
    Decoded =>
        /\ IsJsonObject => last.req.parsed = AsJson.obj
        /\ (~IsJsonObject /\ map_like(BodyText)) =>
              last.req.parsed = map_text(BodyText)
        /\ (~IsJsonObject /\ ~map_like(BodyText) /\ query_like(BodyText)) =>
              last.req.parsed = query_text(BodyText)
        /\ (~IsJsonObject /\ ~map_like(BodyText) /\ ~query_like(BodyText)) =>
              last.req.parsed = EmptyMap
        /\ BodyText = <<>> => last.req.parsed = EmptyMap

\* The body {"k":"v=k"}, which has the {key=value} shape too, was decoded to
\* the object it is.
C23_Witness ==
    /\ Decoded
    /\ last.req.content =
          <<"{", "\"", "k", "\"", ":", "\"", "v", "=", "k", "\"", "}">>
    /\ map_like(BodyText)
    /\ last.req.parsed = (<<"k">> :> Str(<<"v", "=", "k">>))

(***************************************************************************)
(* Writes without content                                                  *)
(***************************************************************************)
\* C24: a POST /write or POST /upload whose content_b64 is missing or is
\* refused by the base64 decoder is answered 400 and leaves the filesystem
\* as it was.
C24_BadContentRejected ==
    [][ (nreq' = nreq + 1
            /\ last'.op \in {"write", "post_upload"}
            /\ last'.req.b64.t \in {"absent", "badpad"})
        => (last'.status = 400 /\ fs' = fs) ]_vars

(***************************************************************************)
(* Waiting for a job                                                       *)
(***************************************************************************)
\* C25: _async_exec_wait returns a status answer only when that answer said
\* done, or the answer to the submit when that was not ok; it ends without
\* returning only when a call raised or the submit answer named no job; and
\* once the job has ended, the loop ends: it returns, or a call raised.
C25_WaitReturnsDone ==
    /\ [](gui.wait = "returned" => gui.ret \in {"done", "submit"})
    /\ []((gui.wait = "returned" /\ gui.ret = "done") => gui.job.done)
    /\ []((gui.wait = "raised" /\ gui.job.done) => gui.failed)
    /\ ((gui.wait = "polling" /\ gui.job.done) ~> (gui.wait \in {"returned", "raised"}))
    /\ ((gui.wait = "polling" /\ gui.job.done) ~> (gui.wait = "returned" \/ gui.failed))

\* The loop returned the done answer after it had logged output of the job.
C25_Witness ==
    /\ gui.wait = "returned"
    /\ gui.ret = "done"
    /\ gui.job.done
    /\ ~gui.failed
    /\ gui.last_len = 2
    /\ gui.log = <<1, 2>>

\* C26: the init log holds the lines of the job's stdout in order, each
\* once, and all of them when the loop has returned.
C26_EveryLineOnce ==
    /\ gui.log = [i \in 1..Len(gui.log) |-> i]
    /\ (gui.wait = "returned" /\ gui.ret = "done") => Len(gui.log) = gui.job.lines

(***************************************************************************)
(* Closing the window, and create before use                               *)
(***************************************************************************)
\* C27: once _on_close has completed, every session whose create returned
\* has been killed, also when _on_close runs beside _init_sessions.
C27_CloseKillsAll ==
    gui.close = "done" => gui.created \subseteq gui.killed

\* C28: no send and no capture goes out for a tab's session before the
\* create of that session has returned without raising.
C28_CreateFirst ==
    /\ gui.early = {}
    /\ gui.call.op \in {"send", "capture"} => gui.call.name \in gui.created
    /\ gui.sessions \subseteq gui.created

\* A capture went out for a created session while the create call of the
\* next tab was on the wire, and the user had tried that next tab before.
C28_Witness ==
    /\ gui.call = [op |-> "capture", name |-> "claude"]
    /\ gui.init = [i |-> 2, at |-> "send"]
    /\ gui.created = {"claude", "codex"}
    /\ gui.pollers = {"claude"}
    /\ gui.early = {}

====
